---- MODULE Spec2Model ----
(***************************************************************************)
(* A model of the Hack assembler: the symbol table (symtab.rs), the line   *)
(* normaliser, label recogniser and instruction parser (parser.rs), the    *)
(* encoder (codegen.rs) and the two-pass driver (main.rs).                 *)
(*                                                                         *)
(* Text is modelled character by character: a string is a sequence of      *)
(* one-character strings, so the regular expressions of parser.rs and the  *)
(* decimal parse are computed, not assumed.                                 *)
(***************************************************************************)
EXTENDS Integers, Sequences, FiniteSets, TLC

VARIABLES
    table,      \* SymbolTable: [entries, next_local]
    anon,       \* bindings of names outside the tracked universe: address intervals
    last,       \* the last operation: its arguments, pre-state and result
    hist,       \* first-reference bookkeeping of the symbol-table API run
    line,       \* the line handed to label_name / parse_inst
    label,      \* result of label_name(line)
    inst,       \* result of parse_inst(line, table)
    word,       \* result of compile(inst)
    text,       \* main: the input buffer
    lines,      \* main: preprocess(&buffer)
    pc,         \* position of the run
    row,        \* collect_labels: index of the line being visited
    label_count,\* collect_labels: labels seen so far
    cursor,     \* main: position of lines.iter() in the instruction pass
    code,       \* main: words formatted so far
    err,        \* main: the error that ended the run
    output      \* main: what write_output received

vars == <<table, anon, last, hist, line, label, inst, word,
          text, lines, pc, row, label_count, cursor, code, err, output>>

(***************************************************************************)
(* Bounds of the model.                                                    *)
(***************************************************************************)
MaxCalls == 4      \* symbol-table API calls in one run
BulkSize == 65517  \* fresh names referenced by one bulk run of resolve_or_bind
MaxBulkRuns == 1   \* bulk runs in one API run
MaxDigits == 5     \* digits of an address literal
MaxLineLen == 4    \* characters of a line drawn from LabelChars
MaxComp == 3       \* characters of a computation drawn from CompChars
MaxDest == 2       \* characters of a destination drawn from DestChars
MaxLines == 3      \* raw lines of a program

(***************************************************************************)
(* Option / Result values.                                                 *)
(***************************************************************************)
None == [tag |-> "None"]
Some(v) == [tag |-> "Some", val |-> v]
Ok(v) == [tag |-> "Ok", val |-> v]
Err(e) == [tag |-> "Err", err |-> e]
NotRun == [tag |-> "NotRun"]

(***************************************************************************)
(* u16 arithmetic.                                                         *)
(***************************************************************************)
U16Max == 65535
U16Mod == U16Max + 1
WrapAdd(a, b) == (a + b) % U16Mod
WrapSub(a, b) == (a - b + U16Mod) % U16Mod

(***************************************************************************)
(* symtab.rs                                                               *)
(***************************************************************************)
AlreadyBound(symbol) == [kind |-> "AlreadyBound", symbol |-> symbol]
TooManyBindings == [kind |-> "TooManyBindings"]

FirstLocal == 16

InitialEntries ==
    (<<"R", "0">> :> 0) @@ (<<"R", "1">> :> 1) @@ (<<"R", "2">> :> 2) @@
    (<<"R", "3">> :> 3) @@ (<<"R", "4">> :> 4) @@ (<<"R", "5">> :> 5) @@
    (<<"R", "6">> :> 6) @@ (<<"R", "7">> :> 7) @@ (<<"R", "8">> :> 8) @@
    (<<"R", "9">> :> 9) @@ (<<"R", "1", "0">> :> 10) @@
    (<<"R", "1", "1">> :> 11) @@ (<<"R", "1", "2">> :> 12) @@
    (<<"R", "1", "3">> :> 13) @@ (<<"R", "1", "4">> :> 14) @@
    (<<"R", "1", "5">> :> 15) @@ (<<"S", "P">> :> 0) @@
    (<<"L", "C", "L">> :> 1) @@ (<<"A", "R", "G">> :> 2) @@
    (<<"T", "H", "I", "S">> :> 3) @@ (<<"T", "H", "A", "T">> :> 4) @@
    (<<"S", "C", "R", "E", "E", "N">> :> 16384) @@
    (<<"K", "B", "D">> :> 24576)

contains(t, symbol) == symbol \in DOMAIN t.entries

bind_overwrite(t, symbol, address) ==
    [table |-> [t EXCEPT !.entries = (symbol :> address) @@ @],
     res |-> Ok(address)]

bind(t, symbol, address) ==
    IF contains(t, symbol)
    THEN [table |-> t, res |-> Err(AlreadyBound(symbol))]
    ELSE [table |-> [t EXCEPT !.entries = @ @@ (symbol :> address)],
          res |-> Ok(address)]

INITIAL_TABLE == [entries |-> InitialEntries, next_local |-> FirstLocal]

new == INITIAL_TABLE

resolve(t, symbol) ==
    IF symbol \in DOMAIN t.entries THEN Some(t.entries[symbol]) ELSE None

resolve_or_bind_unchecked(t, symbol) ==
    IF resolve(t, symbol) # None
    THEN [table |-> t, res |-> Ok(resolve(t, symbol).val)]
    ELSE bind([t EXCEPT !.next_local = WrapAdd(@, 1)], symbol, t.next_local)

resolve_or_bind_from_next(t, symbol) ==
    IF resolve(t, symbol) # None
    THEN [table |-> t, res |-> Ok(resolve(t, symbol).val)]
    ELSE IF t.next_local = U16Max
    THEN [table |-> t, res |-> Err(TooManyBindings)]
    ELSE bind([t EXCEPT !.next_local = WrapAdd(@, 1)], symbol,
              WrapAdd(t.next_local, 1))

resolve_or_bind(t, symbol) ==
    IF resolve(t, symbol) # None
    THEN [table |-> t, res |-> Ok(resolve(t, symbol).val)]
    ELSE IF t.next_local = U16Max
    THEN [table |-> t, res |-> Err(TooManyBindings)]
    ELSE bind([t EXCEPT !.next_local = WrapAdd(@, 1)], symbol, t.next_local)

(***************************************************************************)
(* The symbol-table API driven by an arbitrary caller.  Names outside      *)
(* ApiNames are referenced only by bulk runs (the loop of                  *)
(* tests::resolve_or_bind, which references fresh names X18, X19, ...):    *)
(* their bindings are kept as address intervals in anon.                   *)
(***************************************************************************)
ApiNames == {<<"A">>, <<"B">>, <<"C">>, <<"S", "P">>}
ApiAddresses == {1, 16}

NoHist == [calls |-> 0, refs |-> 0, kOf |-> <<>>, got |-> <<>>]
NoLast == [op |-> "none"]

Min(a, b) == IF a <= b THEN a ELSE b

\* n calls of resolve_or_bind on n names that are pairwise distinct and
\* unbound: each call allocates next_local until the counter reaches U16Max,
\* from where every call returns TooManyBindings and changes nothing.
bulk_resolve_or_bind(t, n) ==
    LET given == Min(n, U16Max - t.next_local)
    IN [table |-> [t EXCEPT !.next_local = @ + given],
        first |-> t.next_local,
        given |-> given,
        res |-> IF given = n THEN Ok(t.next_local + n - 1)
                ELSE Err(TooManyBindings)]

InitTable ==
    /\ table = new
    /\ anon = <<>>
    /\ last = NoLast
    /\ hist = NoHist
    /\ line = <<>> /\ label = NotRun /\ inst = NotRun /\ word = NotRun
    /\ text = <<>> /\ lines = <<>> /\ pc = "api" /\ row = 0
    /\ label_count = 0 /\ cursor = 0 /\ code = <<>> /\ err = None
    /\ output = None

OtherUnchanged ==
    UNCHANGED <<line, label, inst, word, text, lines, pc, row, label_count,
                cursor, code, err, output>>

Bind(symbol, address) ==
    /\ pc = "api" /\ hist.calls < MaxCalls
    /\ LET r == bind(table, symbol, address)
       IN /\ table' = r.table
          /\ last' = [op |-> "bind", symbol |-> symbol, address |-> address,
                      prev |-> table, prevHist |-> hist, res |-> r.res]
    /\ hist' = [hist EXCEPT !.calls = @ + 1]
    /\ UNCHANGED anon
    /\ OtherUnchanged

Resolve(symbol) ==
    /\ pc = "api" /\ hist.calls < MaxCalls
    /\ last' = [op |-> "resolve", symbol |-> symbol, prev |-> table,
                prevHist |-> hist, res |-> resolve(table, symbol)]
    /\ hist' = [hist EXCEPT !.calls = @ + 1]
    /\ UNCHANGED <<table, anon>>
    /\ OtherUnchanged

ResolveOrBind(symbol) ==
    /\ pc = "api" /\ hist.calls < MaxCalls
    /\ LET r == resolve_or_bind(table, symbol)
           unbound == ~contains(table, symbol)
           first == unbound /\ symbol \notin DOMAIN hist.kOf
       IN /\ table' = r.table
          /\ last' = [op |-> "resolve_or_bind", symbol |-> symbol,
                      prev |-> table, prevHist |-> hist, res |-> r.res]
          /\ hist' = [calls |-> hist.calls + 1,
                      refs |-> IF first THEN hist.refs + 1 ELSE hist.refs,
                      kOf |-> IF first
                              THEN hist.kOf @@ (symbol :> hist.refs + 1)
                              ELSE hist.kOf,
                      got |-> IF unbound /\ r.res.tag = "Ok"
                              THEN hist.got @@ (symbol :> r.res.val)
                              ELSE hist.got]
    /\ UNCHANGED anon
    /\ OtherUnchanged

ResolveOrBindBulk ==
    /\ pc = "api" /\ hist.calls < MaxCalls /\ Len(anon) < MaxBulkRuns
    /\ LET r == bulk_resolve_or_bind(table, BulkSize)
       IN /\ table' = r.table
          /\ anon' = Append(anon, [first |-> r.first, given |-> r.given])
          /\ last' = [op |-> "bulk", prev |-> table, prevHist |-> hist,
                      res |-> r.res]
    /\ hist' = [hist EXCEPT !.calls = @ + 1, !.refs = @ + BulkSize]
    /\ OtherUnchanged

NextTable ==
    \/ \E symbol \in ApiNames, address \in ApiAddresses : Bind(symbol, address)
    \/ \E symbol \in ApiNames : Resolve(symbol)
    \/ \E symbol \in ApiNames : ResolveOrBind(symbol)
    \/ ResolveOrBindBulk

SpecTable == InitTable /\ [][NextTable]_vars

(***************************************************************************)
(* Claims about the symbol table.                                          *)
(***************************************************************************)
IsRob == last.op = "resolve_or_bind"
WasBound == last.symbol \in DOMAIN last.prev.entries
\* the call referenced a name that was unbound and had not been referenced
\* while unbound before: hist.kOf[name] is its rank k among such names
FirstReference == IsRob /\ ~WasBound /\ last.symbol \notin DOMAIN last.prevHist.kOf
\* the last rank whose address, FirstLocal + (k - 1), is below U16Max
LastVariable == U16Max - FirstLocal

LaterReferences ==
    /\ (IsRob /\ last.symbol \in DOMAIN last.prevHist.got) =>
           /\ last.res = Ok(last.prevHist.got[last.symbol])
           /\ table.next_local = last.prev.next_local
    /\ (IsRob /\ WasBound) =>
           /\ last.res = Ok(last.prev.entries[last.symbol])
           /\ table.next_local = last.prev.next_local

\* C2 as stated: from a fresh table, over any sequence of resolve_or_bind,
\* bind and resolve calls, the k-th distinct previously unbound name that is
\* referenced receives address 16 + (k - 1), every later reference to it
\* returns the same address, and a reference to a bound name returns its
\* address without advancing the counter.
C2_AsStated ==
    /\ FirstReference =>
           last.res = Ok(FirstLocal + (hist.kOf[last.symbol] - 1))
    /\ (last.op = "bulk") => last.res = Ok(FirstLocal + (hist.refs - 1))
    /\ LaterReferences

\* C2 amended: the same for k <= 65519 (addresses 16..65534); from the
\* 65520th such name on the call returns TooManyBindings and binds nothing.
C2_VariableAddresses ==
    /\ FirstReference =>
           IF hist.kOf[last.symbol] <= LastVariable
           THEN last.res = Ok(FirstLocal + (hist.kOf[last.symbol] - 1))
           ELSE last.res = Err(TooManyBindings) /\ table = last.prev
    /\ (last.op = "bulk") =>
           IF hist.refs <= LastVariable
           THEN last.res = Ok(FirstLocal + (hist.refs - 1))
           ELSE last.res = Err(TooManyBindings)
    /\ LaterReferences

\* a name allocated second (address 17), after a bind, is referenced again
C2_Witness ==
    /\ IsRob
    /\ last.symbol \in DOMAIN last.prevHist.got
    /\ last.res = Ok(FirstLocal + 1)
    /\ \E s \in DOMAIN table.entries :
           s \notin DOMAIN InitialEntries /\ s \notin DOMAIN hist.got

\* C6: bind on a bound name (predefined, explicitly bound or auto-allocated)
\* returns AlreadyBound naming it and changes nothing; bind on an unbound
\* name adds exactly that binding; no operation changes the address of a
\* name that is bound.
C6_BindOnce ==
    /\ (last.op = "bind") =>
           IF last.symbol \in DOMAIN last.prev.entries
           THEN /\ last.res = Err(AlreadyBound(last.symbol))
                /\ table = last.prev
           ELSE /\ last.res = Ok(last.address)
                /\ DOMAIN table.entries =
                       DOMAIN last.prev.entries \cup {last.symbol}
                /\ table.entries[last.symbol] = last.address
                /\ table.next_local = last.prev.next_local
    /\ (last.op # "none") =>
           \A s \in DOMAIN last.prev.entries :
               /\ s \in DOMAIN table.entries
               /\ table.entries[s] = last.prev.entries[s]

\* bind is refused on a name that resolve_or_bind allocated as a variable
C6_Witness ==
    /\ last.op = "bind"
    /\ last.symbol \in DOMAIN last.prevHist.got
    /\ last.res = Err(AlreadyBound(last.symbol))
    /\ last.address # table.entries[last.symbol]

GivenBefore(a) ==
    \/ \E s \in DOMAIN last.prevHist.got : last.prevHist.got[s] = a
    \/ \E i \in DOMAIN anon :
           a >= anon[i].first /\ a < anon[i].first + anon[i].given

\* C8: resolve_or_bind on an unbound name fails with TooManyBindings exactly
\* when incrementing the counter would leave the u16 range; otherwise it
\* returns an address in 16..65535 that no earlier variable received; the
\* counter never wraps; a failing call changes nothing; calls on bound names
\* succeed in every state.
C8_Exhaustion ==
    /\ table.next_local \in FirstLocal..U16Max
    /\ (IsRob /\ ~WasBound) =>
           /\ (last.res = Err(TooManyBindings)) <=>
                  (last.prev.next_local + 1 > U16Max)
           /\ (last.res.tag = "Err") =>
                  last.res = Err(TooManyBindings) /\ table = last.prev
           /\ (last.res.tag = "Ok") =>
                  /\ last.res.val \in FirstLocal..U16Max
                  /\ ~GivenBefore(last.res.val)
                  /\ table.next_local = last.prev.next_local + 1
                  /\ table.entries[last.symbol] = last.res.val
    /\ (IsRob /\ WasBound) => last.res.tag = "Ok"

\* the counter is exhausted and a reference to an unbound name is refused
C8_Witness ==
    /\ IsRob /\ ~WasBound
    /\ last.res = Err(TooManyBindings)
    /\ last.prev.next_local = U16Max
    /\ DOMAIN hist.got # {}

(***************************************************************************)
(* Characters and strings.                                                 *)
(***************************************************************************)
Letter ==
    {"A", "B", "C", "D", "E", "F", "G", "H", "I", "J", "K", "L", "M", "N",
     "O", "P", "Q", "R", "S", "T", "U", "V", "W", "X", "Y", "Z",
     "a", "b", "c", "d", "e", "f", "g", "h", "i", "j", "k", "l", "m", "n",
     "o", "p", "q", "r", "s", "t", "u", "v", "w", "x", "y", "z"}
Digit == {"0", "1", "2", "3", "4", "5", "6", "7", "8", "9"}
Whitespace == {" ", "\t", "\r"}
IdentChar == Letter \cup Digit \cup {"_", ".", "$"}

DigitValue(c) ==
    CASE c = "0" -> 0 [] c = "1" -> 1 [] c = "2" -> 2 [] c = "3" -> 3
      [] c = "4" -> 4 [] c = "5" -> 5 [] c = "6" -> 6 [] c = "7" -> 7
      [] c = "8" -> 8 [] c = "9" -> 9

AllIn(s, S) == \A i \in DOMAIN s : s[i] \in S

\* first index of character c in s, 0 when absent
IndexOf(s, c) ==
    IF \E i \in DOMAIN s : s[i] = c
    THEN CHOOSE i \in DOMAIN s : s[i] = c /\ \A j \in 1..(i - 1) : s[j] # c
    ELSE 0

\* first index at or after i whose character is not in S (Len(s) + 1 if none)
SkipWhile(s, i, S) ==
    IF \E j \in i..Len(s) : s[j] \notin S
    THEN CHOOSE j \in i..Len(s) :
             s[j] \notin S /\ \A k \in i..(j - 1) : s[k] \in S
    ELSE Len(s) + 1

\* last index whose character is not in S (0 if none)
LastNotIn(s, S) ==
    IF \E j \in DOMAIN s : s[j] \notin S
    THEN CHOOSE j \in DOMAIN s :
             s[j] \notin S /\ \A k \in (j + 1)..Len(s) : s[k] \in S
    ELSE 0

TrimStart(s) == SubSeq(s, SkipWhile(s, 1, Whitespace), Len(s))
TrimEnd(s) == SubSeq(s, 1, LastNotIn(s, Whitespace))
Trim(s) == TrimEnd(TrimStart(s))

(***************************************************************************)
(* parser.rs: preprocess                                                   *)
(***************************************************************************)
\* str::lines: the pieces between "\n"; a final empty piece is not a line
RECURSIVE StrLines(_)
StrLines(s) ==
    IF s = <<>> THEN <<>>
    ELSE LET n == IndexOf(s, "\n")
         IN IF n = 0 THEN <<s>>
            ELSE <<SubSeq(s, 1, n - 1)>> \o StrLines(SubSeq(s, n + 1, Len(s)))

\* line.replace(|c| c.is_whitespace(), "")
RECURSIVE RemoveWhitespace(_)
RemoveWhitespace(s) ==
    IF s = <<>> THEN <<>>
    ELSE IF Head(s) \in Whitespace THEN RemoveWhitespace(Tail(s))
    ELSE <<Head(s)>> \o RemoveWhitespace(Tail(s))

\* .split("//").next().unwrap(): the text before the first "//"
BeforeComment(s) ==
    IF \E i \in 1..(Len(s) - 1) : s[i] = "/" /\ s[i + 1] = "/"
    THEN LET i == CHOOSE i \in 1..(Len(s) - 1) :
                      /\ s[i] = "/" /\ s[i + 1] = "/"
                      /\ \A j \in 1..(i - 1) : ~(s[j] = "/" /\ s[j + 1] = "/")
         IN SubSeq(s, 1, i - 1)
    ELSE s

clean_line(l) == Trim(BeforeComment(RemoveWhitespace(l)))

RECURSIVE CleanAll(_)
CleanAll(ls) ==
    IF ls = <<>> THEN <<>>
    ELSE LET c == clean_line(Head(ls))
         IN IF c = <<>> THEN CleanAll(Tail(ls))
            ELSE <<c>> \o CleanAll(Tail(ls))

preprocess(t) == CleanAll(StrLines(t))

(***************************************************************************)
(* parser.rs: the regular expressions LABEL, A_INST and C_INST             *)
(***************************************************************************)
\* LABEL matched with its "(" at index i: \( \s* \pL [\pL\d_\.\$]* \s* \)
LabelAt(s, i) ==
    IF s[i] # "(" THEN None
    ELSE LET j == SkipWhile(s, i + 1, Whitespace)
         IN IF j > Len(s) \/ s[j] \notin Letter THEN None
            ELSE LET k == SkipWhile(s, j + 1, IdentChar)
                     m == SkipWhile(s, k, Whitespace)
                 IN IF m <= Len(s) /\ s[m] = ")"
                    THEN Some(SubSeq(s, j, k - 1))
                    ELSE None

\* LABEL.captures(line): the leftmost match anywhere in the line
label_name(s) ==
    IF \E i \in DOMAIN s : LabelAt(s, i) # None
    THEN LabelAt(s, CHOOSE i \in DOMAIN s :
                        /\ LabelAt(s, i) # None
                        /\ \A j \in 1..(i - 1) : LabelAt(s, j) = None)
    ELSE None

\* A_INST: ^@((?P<address>\d+)|(?P<symbol>\pL[\pL\d_\.\$]*))$
A_INST(s) ==
    IF Len(s) < 2 \/ s[1] # "@" THEN None
    ELSE LET body == Tail(s)
         IN IF AllIn(body, Digit) THEN Some([address |-> body])
            ELSE IF body[1] \in Letter /\ AllIn(body, IdentChar)
            THEN Some([symbol |-> body])
            ELSE None

DestClass == {"A", "M", "D"}
CompClass == {"-", "+", "|", "&", "!", "0", "1", "A", "D", "M"}
JumpClass == {"E", "G", "J", "L", "M", "N", "P", "Q", "T"}

\* C_INST: ^((?P<dest>[AMD]{1,3})\s*=\s*)?(?P<comp>[\-\+\|&!01ADM]+)
\*         (\s*;\s*(?P<jump>[EGJLMNPQT]{3}))?$
\* "=" and ";" belong to no character class, so a match places the
\* destination clause at the first "=" and the jump clause at the first ";".
C_INST(s) ==
    LET eq == IndexOf(s, "=")
        dest == IF eq = 0 THEN None ELSE Some(TrimEnd(SubSeq(s, 1, eq - 1)))
        rest == IF eq = 0 THEN s ELSE TrimStart(SubSeq(s, eq + 1, Len(s)))
        sc == IndexOf(rest, ";")
        comp == IF sc = 0 THEN rest ELSE TrimEnd(SubSeq(rest, 1, sc - 1))
        jump == IF sc = 0 THEN None
                ELSE Some(TrimStart(SubSeq(rest, sc + 1, Len(rest))))
    IN IF /\ dest # None => (Len(dest.val) \in 1..3 /\ AllIn(dest.val, DestClass))
          /\ Len(comp) >= 1 /\ AllIn(comp, CompClass)
          /\ jump # None => (Len(jump.val) = 3 /\ AllIn(jump.val, JumpClass))
       THEN Some([dest |-> dest, comp |-> comp, jump |-> jump])
       ELSE None

(***************************************************************************)
(* inst.rs                                                                 *)
(***************************************************************************)
AInst(address) == [kind |-> "AInst", address |-> address]
CInst(comp, dest, jump) ==
    [kind |-> "CInst", comp |-> comp, dest |-> dest, jump |-> jump]

(***************************************************************************)
(* parser.rs: parse_inst                                                   *)
(***************************************************************************)
InvalidAddress == [kind |-> "InvalidAddress"]
BindError(e) == [kind |-> "BindError", error |-> e]
UnknownInst(l) == [kind |-> "UnknownInst", line |-> l]

\* str::parse::<u16> on a non-empty run of digits: the value, or an error
\* as soon as the accumulated value leaves the u16 range
RECURSIVE ParseFrom(_, _, _)
ParseFrom(s, i, acc) ==
    IF i > Len(s) THEN Ok(acc)
    ELSE LET next == acc * 10 + DigitValue(s[i])
         IN IF next > U16Max THEN Err(InvalidAddress)
            ELSE ParseFrom(s, i + 1, next)

parse_u16(s) == ParseFrom(s, 1, 0)

parse_inst(l, t) ==
    IF A_INST(l) # None
    THEN LET parts == A_INST(l).val
         IN IF "symbol" \in DOMAIN parts
            THEN LET r == resolve_or_bind(t, parts.symbol)
                 IN [table |-> r.table,
                     res |-> IF r.res.tag = "Ok" THEN Ok(AInst(r.res.val))
                             ELSE Err(BindError(r.res.err))]
            ELSE [table |-> t,
                  res |-> IF parse_u16(parts.address).tag = "Ok"
                          THEN Ok(AInst(parse_u16(parts.address).val))
                          ELSE Err(InvalidAddress)]
    ELSE IF C_INST(l) # None
    THEN [table |-> t,
          res |-> Ok(CInst(C_INST(l).val.comp, C_INST(l).val.dest,
                           C_INST(l).val.jump))]
    ELSE [table |-> t, res |-> Err(UnknownInst(l))]

(***************************************************************************)
(* codegen.rs                                                              *)
(***************************************************************************)
COMP_TABLE ==
    (<<"0">> :> 42) @@ (<<"1">> :> 63) @@ (<<"-", "1">> :> 58) @@
    (<<"D">> :> 12) @@ (<<"A">> :> 48) @@ (<<"!", "D">> :> 13) @@
    (<<"!", "A">> :> 49) @@ (<<"-", "D">> :> 15) @@ (<<"-", "A">> :> 51) @@
    (<<"D", "+", "1">> :> 31) @@ (<<"A", "+", "1">> :> 55) @@
    (<<"D", "-", "1">> :> 14) @@ (<<"A", "-", "1">> :> 50) @@
    (<<"D", "+", "A">> :> 2) @@ (<<"D", "-", "A">> :> 19) @@
    (<<"A", "-", "D">> :> 7) @@ (<<"D", "&", "A">> :> 0) @@
    (<<"D", "|", "A">> :> 21) @@ (<<"M">> :> 112) @@
    (<<"!", "M">> :> 113) @@ (<<"-", "M">> :> 115) @@
    (<<"M", "+", "1">> :> 119) @@ (<<"M", "-", "1">> :> 114) @@
    (<<"D", "+", "M">> :> 66) @@ (<<"D", "-", "M">> :> 83) @@
    (<<"M", "-", "D">> :> 71) @@ (<<"D", "&", "M">> :> 64) @@
    (<<"D", "|", "M">> :> 85)

DEST_TABLE ==
    (<<"M">> :> 1) @@ (<<"D">> :> 2) @@ (<<"M", "D">> :> 3) @@
    (<<"A">> :> 4) @@ (<<"A", "M">> :> 5) @@ (<<"A", "D">> :> 6) @@
    (<<"A", "M", "D">> :> 7)

JUMP_TABLE ==
    (<<"J", "G", "T">> :> 1) @@ (<<"J", "E", "Q">> :> 2) @@
    (<<"J", "G", "E">> :> 3) @@ (<<"J", "L", "T">> :> 4) @@
    (<<"J", "N", "E">> :> 5) @@ (<<"J", "L", "E">> :> 6) @@
    (<<"J", "M", "P">> :> 7)

Comp(m) == [field |-> "Comp", mnemonic |-> m]
Dest(m) == [field |-> "Dest", mnemonic |-> m]
Jump(m) == [field |-> "Jump", mnemonic |-> m]
LookupMiss(info) == [kind |-> "LookupMiss", info |-> info]

\* HashMap::get
Get(tbl, key) == IF key \in DOMAIN tbl THEN Some(tbl[key]) ELSE None

\* x << n on u16
Shl(x, n) == (x * 2 ^ n) % U16Mod

AddressMask == 32767  \* 0x7FFF
CTag == 57344         \* 0xE000
CompShift == 6
DestShift == 3

compile_c_overlap(comp, dest, jump) ==
    LET c == Get(COMP_TABLE, comp)
        d == IF dest = None THEN Some(0) ELSE Get(DEST_TABLE, dest.val)
        j == IF jump = None THEN Some(0) ELSE Get(JUMP_TABLE, jump.val)
    IN IF c = None THEN Err(LookupMiss(Comp(comp)))
       ELSE IF d = None THEN Err(LookupMiss(Dest(dest.val)))
       ELSE IF j = None THEN Err(LookupMiss(Jump(jump.val)))
       ELSE Ok(WrapAdd(WrapAdd(WrapAdd(CTag, Shl(c.val, CompShift)),
                               Shl(d.val, DestShift - 1)), j.val))

compile_c_default(comp, dest, jump) ==
    LET c == Get(COMP_TABLE, comp)
        d == IF dest = None \/ Get(DEST_TABLE, dest.val) = None
             THEN Some(0) ELSE Get(DEST_TABLE, dest.val)
        j == IF jump = None \/ Get(JUMP_TABLE, jump.val) = None
             THEN Some(0) ELSE Get(JUMP_TABLE, jump.val)
    IN IF c = None THEN Err(LookupMiss(Comp(comp)))
       ELSE Ok(WrapAdd(WrapAdd(WrapAdd(CTag, Shl(c.val, CompShift)),
                               Shl(d.val, DestShift)), j.val))

compile_c(comp, dest, jump) ==
    LET c == Get(COMP_TABLE, comp)
        d == IF dest = None THEN Some(0) ELSE Get(DEST_TABLE, dest.val)
        j == IF jump = None THEN Some(0) ELSE Get(JUMP_TABLE, jump.val)
    IN IF c = None THEN Err(LookupMiss(Comp(comp)))
       ELSE IF d = None THEN Err(LookupMiss(Dest(dest.val)))
       ELSE IF j = None THEN Err(LookupMiss(Jump(jump.val)))
       ELSE Ok(WrapAdd(WrapAdd(WrapAdd(CTag, Shl(c.val, CompShift)),
                               Shl(d.val, DestShift)), j.val))

compile(i) ==
    IF i.kind = "AInst"
    THEN Ok(i.address % (AddressMask + 1))
    ELSE compile_c(i.comp, i.dest, i.jump)

(***************************************************************************)
(* One line through label_name, parse_inst (on a fresh table) and compile. *)
(***************************************************************************)
SeqsUpTo(S, n) == UNION {[1..k -> S] : k \in 1..n}

DigitChars == {"0", "2", "3", "5", "6", "7", "8"}
LabelChars == {"(", ")", "X", "@", "1", " "}
CompChars == {"D", "+", "1", "M"}
DestChars == {"A", "M"}
JumpInputs ==
    {None, Some(<<"J", "M", "P">>), Some(<<"J", "G", "T">>),
     Some(<<"J", "J", "J">>)}

CLine(dest, comp, jump) ==
    (IF dest = None THEN <<>> ELSE dest.val \o <<"=">>) \o comp \o
    (IF jump = None THEN <<>> ELSE <<";">> \o jump.val)

LiteralLines == {<<"@">> \o d : d \in SeqsUpTo(DigitChars, MaxDigits)}
SymbolLines ==
    {<<"@">> \o n : n \in ApiNames \cup {<<"S", "C", "R", "E", "E", "N">>}}
LabelLines == SeqsUpTo(LabelChars, MaxLineLen)
GrammarLines ==
    {CLine(d, c, j) :
        d \in {None} \cup {Some(x) : x \in SeqsUpTo(DestChars, MaxDest)},
        c \in SeqsUpTo(CompChars, MaxComp),
        j \in JumpInputs}
TableLines ==
    {CLine(d, c, j) :
        d \in {None} \cup {Some(x) : x \in DOMAIN DEST_TABLE},
        c \in DOMAIN COMP_TABLE,
        j \in {None} \cup {Some(x) : x \in DOMAIN JUMP_TABLE}}
ExampleLines ==
    {<<"@", "7", "0", "0", "0", "0">>, <<"@", "0">>, <<"@", "4", "2">>,
     <<"@", "0", "0", "0", "0", "0", "4", "2">>,
     <<"D", "=", "(", "A", ")", "M">>, <<"(", "L", "O", "O", "P", ")">>,
     <<"(", "a", ".", "b", "$", "c", "_", "1", ")">>,
     <<"n", "o", "t", "-", "a", "-", "l", "a", "b", "e", "l">>,
     <<"(", "l", "a", "b", "e", "l", ")">>,
     <<"M", " ", "=", " ", "1">>, <<"D", " ", ";", " ", "J", "M", "P">>,
     <<";", "=", ";", "=">>, <<"A", "M", "D", "=", "D", "|", "A">>,
     <<"A", "A", "A", "A", "=", "D">>, <<"D", ";", "J", "M">>}

LineInputs ==
    LiteralLines \cup SymbolLines \cup LabelLines \cup GrammarLines
        \cup TableLines \cup ExampleLines

InitLine ==
    /\ table = new
    /\ line \in LineInputs
    /\ pc = "line"
    /\ label = NotRun /\ inst = NotRun /\ word = NotRun
    /\ anon = <<>> /\ last = NoLast /\ hist = NoHist
    /\ text = <<>> /\ lines = <<>> /\ row = 0
    /\ label_count = 0 /\ cursor = 0 /\ code = <<>> /\ err = None
    /\ output = None

LineUnchanged ==
    UNCHANGED <<anon, last, hist, line, text, lines, row, label_count,
                cursor, code, err, output>>

LabelName ==
    /\ pc = "line"
    /\ label' = label_name(line)
    /\ pc' = "labelled"
    /\ UNCHANGED <<table, inst, word>>
    /\ LineUnchanged

ParseInst ==
    /\ pc = "labelled"
    /\ LET r == parse_inst(line, table)
       IN table' = r.table /\ inst' = r.res
    /\ pc' = "parsed"
    /\ UNCHANGED <<label, word>>
    /\ LineUnchanged

Compile ==
    /\ pc = "parsed" /\ inst.tag = "Ok"
    /\ word' = compile(inst.val)
    /\ pc' = "compiled"
    /\ UNCHANGED <<table, label, inst>>
    /\ LineUnchanged

NextLine == LabelName \/ ParseInst \/ Compile

SpecLine == InitLine /\ [][NextLine]_vars

(***************************************************************************)
(* Claims about one line.                                                  *)
(***************************************************************************)
Normalized(l) == l # <<>> /\ \A i \in DOMAIN l : l[i] \notin Whitespace

\* the bits lo .. lo + n - 1 of w
Bits(w, lo, n) == (w \div (2 ^ lo)) % (2 ^ n)

InTables(i) ==
    /\ i.comp \in DOMAIN COMP_TABLE
    /\ i.dest # None => i.dest.val \in DOMAIN DEST_TABLE
    /\ i.jump # None => i.jump.val \in DOMAIN JUMP_TABLE

\* C3: compile gives an address-load the word with bit 15 clear and the low
\* 15 bits of the address, and a compute instruction whose mnemonics are all
\* in the tables the word 111 | comp (bits 12-6) | dest (bits 5-3) | jump
\* (bits 2-0), with 0 for an absent destination or jump.
C3_Encoding ==
    (pc = "compiled") =>
        IF inst.val.kind = "AInst"
        THEN /\ word.tag = "Ok"
             /\ Bits(word.val, 15, 1) = 0
             /\ Bits(word.val, 0, 15) = Bits(inst.val.address, 0, 15)
        ELSE InTables(inst.val) =>
             /\ word.tag = "Ok"
             /\ word.val \in 0..U16Max
             /\ Bits(word.val, 13, 3) = 7
             /\ Bits(word.val, 6, 7) = COMP_TABLE[inst.val.comp]
             /\ Bits(word.val, 3, 3) =
                    IF inst.val.dest = None THEN 0
                    ELSE DEST_TABLE[inst.val.dest.val]
             /\ Bits(word.val, 0, 3) =
                    IF inst.val.jump = None THEN 0
                    ELSE JUMP_TABLE[inst.val.jump.val]

\* the fixture of tests::compile_c_inst: AM=D|A;JGE is 1110010101101011
C3_Witness ==
    /\ pc = "compiled"
    /\ line = <<"A", "M", "=", "D", "|", "A", ";", "J", "G", "E">>
    /\ word = Ok(58731)

RECURSIVE DecimalValue(_)
DecimalValue(d) ==
    IF d = <<>> THEN 0
    ELSE DecimalValue(SubSeq(d, 1, Len(d) - 1)) * 10 + DigitValue(d[Len(d)])

\* C5 as stated: parse_inst on @n, n an unsigned decimal literal, returns
\* the address-load of n exactly when n <= 32767 and InvalidAddress for
\* every larger literal.
C5_AsStated ==
    (/\ pc \in {"parsed", "compiled"}
     /\ Len(line) >= 2 /\ line[1] = "@" /\ AllIn(Tail(line), Digit)) =>
        IF DecimalValue(Tail(line)) <= AddressMask
        THEN inst = Ok(AInst(DecimalValue(Tail(line))))
        ELSE inst = Err(InvalidAddress)

\* C7: for a compute instruction produced by the parser, compile returns a
\* word when every mnemonic present is in its table, and otherwise the
\* LookupMiss of the first missing field in the order computation,
\* destination, jump, carrying that field's text from the line.
C7_LookupMiss ==
    (pc = "compiled" /\ inst.val.kind = "CInst") =>
        LET i == inst.val
        IN /\ Normalized(line) => line = CLine(i.dest, i.comp, i.jump)
           /\ IF i.comp \notin DOMAIN COMP_TABLE
              THEN word = Err(LookupMiss(Comp(i.comp)))
              ELSE IF i.dest # None /\ i.dest.val \notin DOMAIN DEST_TABLE
              THEN word = Err(LookupMiss(Dest(i.dest.val)))
              ELSE IF i.jump # None /\ i.jump.val \notin DOMAIN JUMP_TABLE
              THEN word = Err(LookupMiss(Jump(i.jump.val)))
              ELSE word.tag = "Ok"

\* a destination and a jump that the grammar accepts and the tables lack
C7_Witness ==
    /\ pc = "compiled"
    /\ line = <<"A", "A", "=", "D", "+", "1", ";", "J", "J", "J">>
    /\ word = Err(LookupMiss(Dest(<<"A", "A">>)))

\* C9 as stated: label_name returns a name for a normalized line only when
\* the whole line is "(" identifier ")".
C9_AsStated ==
    (pc # "line" /\ Normalized(line) /\ label # None) =>
        line = <<"(">> \o label.val \o <<")">>

(***************************************************************************)
(* main.rs: the two passes over one input buffer.                          *)
(***************************************************************************)
\* format!("{:016b}", w)
Binary16(w) == [i \in 1..16 |-> IF (w \div (2 ^ (16 - i))) % 2 = 1 THEN "1" ELSE "0"]

\* .join("\n")
RECURSIVE Join(_)
Join(ws) ==
    IF ws = <<>> THEN <<>>
    ELSE IF Len(ws) = 1 THEN ws[1]
    ELSE ws[1] \o <<"\n">> \o Join(Tail(ws))

\* let address = row as u16 - label_count
collect_address_row(r, count) == r % U16Mod

collect_address(r, count) == WrapSub(r % U16Mod, count)

RawLines ==
    {<<"(", "X", ")">>, <<"(", "S", "P", ")">>, <<"@", "X">>,
     <<"@", "S", "P">>, <<"@", "Y">>, <<"D", "=", "M">>, <<" ">>,
     <<"/", "/", "(", "X", ")">>, <<"@", "(", "X", ")">>,
     <<"D", "+", "D">>, <<" ", "@", "7", "0", "0", "0", "0">>}

RECURSIVE Unlines(_)
Unlines(ls) ==
    IF ls = <<>> THEN <<>> ELSE Head(ls) \o <<"\n">> \o Unlines(Tail(ls))

TextInputs == {Unlines(ls) : ls \in SeqsUpTo(RawLines, MaxLines)}

InitMain ==
    /\ text \in TextInputs
    /\ table = new
    /\ lines = <<>>
    /\ pc = "start"
    /\ row = 0 /\ label_count = 0 /\ cursor = 0
    /\ code = <<>> /\ err = None /\ output = None
    /\ anon = <<>> /\ last = NoLast /\ hist = NoHist
    /\ line = <<>> /\ label = NotRun /\ inst = NotRun /\ word = NotRun

MainUnchanged == UNCHANGED <<anon, last, hist, line, label, inst, word, text>>

\* let lines = parser::preprocess(&buffer);
Preprocess ==
    /\ pc = "start"
    /\ lines' = preprocess(text)
    /\ pc' = "labels"
    /\ UNCHANGED <<table, row, label_count, cursor, code, err, output>>
    /\ MainUnchanged

\* one iteration of the loop of collect_labels; the Result of bind is dropped
CollectLabel ==
    /\ pc = "labels" /\ row < Len(lines)
    /\ LET address == collect_address(row, label_count)
           name == label_name(lines[row + 1])
       IN IF name # None
          THEN /\ table' = bind(table, name.val, address).table
               /\ label_count' = WrapAdd(label_count, 1)
          ELSE UNCHANGED <<table, label_count>>
    /\ row' = row + 1
    /\ UNCHANGED <<lines, pc, cursor, code, err, output>>
    /\ MainUnchanged

\* collect_labels returns (): the catch! around it has no error to report
CollectDone ==
    /\ pc = "labels" /\ row = Len(lines)
    /\ pc' = "insts"
    /\ UNCHANGED <<table, lines, row, label_count, cursor, code, err, output>>
    /\ MainUnchanged

\* one item pulled through filter, parse_inst, compile and format!
Translate ==
    /\ pc = "insts" /\ cursor < Len(lines)
    /\ cursor' = cursor + 1
    /\ LET l == lines[cursor + 1]
           p == parse_inst(l, table)
       IN IF label_name(l) # None
          THEN UNCHANGED <<table, pc, code, err>>
          ELSE /\ table' = p.table
               /\ IF p.res.tag = "Err"
                  THEN /\ pc' = "failed"
                       /\ err' = Some([msg |-> "Parse error", error |-> p.res.err])
                       /\ UNCHANGED code
                  ELSE IF compile(p.res.val).tag = "Err"
                  THEN /\ pc' = "failed"
                       /\ err' = Some([msg |-> "Compilation error",
                                      error |-> compile(p.res.val).err])
                       /\ UNCHANGED code
                  ELSE /\ code' = Append(code, Binary16(compile(p.res.val).val))
                       /\ UNCHANGED <<pc, err>>
    /\ UNCHANGED <<lines, row, label_count, output>>
    /\ MainUnchanged

\* write_output(matches.value_of("output"), code)
WriteOutput ==
    /\ pc = "insts" /\ cursor = Len(lines)
    /\ output' = Some(Join(code))
    /\ pc' = "done"
    /\ UNCHANGED <<table, lines, row, label_count, cursor, code, err>>
    /\ MainUnchanged

NextMain ==
    Preprocess \/ CollectLabel \/ CollectDone \/ Translate \/ WriteOutput

SpecMain == InitMain /\ [][NextMain]_vars

(***************************************************************************)
(* Claims about the two passes.  A label line is a line in which           *)
(* label_name finds a name: the notion both passes of main use.            *)
(***************************************************************************)
IsLabelLine(i) == label_name(lines[i]) # None
LabelOf(i) == label_name(lines[i]).val
\* the number of non-label lines before line i: the index of the
\* instruction that follows line i
InstructionsBefore(i) == Cardinality({j \in 1..(i - 1) : ~IsLabelLine(j)})
Declares(i, name) == IsLabelLine(i) /\ LabelOf(i) = name
\* line i declares a name that is bound when the label pass reaches it
Collides(i) ==
    /\ IsLabelLine(i)
    /\ \/ LabelOf(i) \in DOMAIN InitialEntries
       \/ \E j \in 1..(i - 1) : Declares(j, LabelOf(i))

\* C1: after collect_labels over the normalized lines and a fresh table,
\* every label name that was unbound at its declaration resolves to the
\* number of non-label lines before the declaration.
C1_LabelAddresses ==
    (pc # "start") =>
        \A i \in 1..row :
            (IsLabelLine(i) /\ ~Collides(i)) =>
                resolve(table, LabelOf(i)) = Some(InstructionsBefore(i))

\* an instruction, a line the normalizer drops, a label: the label is 1
C1_Witness ==
    /\ pc = "insts"
    /\ Len(StrLines(text)) = 3 /\ StrLines(text)[2] = <<" ">>
    /\ Len(lines) = 2 /\ ~IsLabelLine(1)
    /\ Declares(2, <<"X">>)
    /\ resolve(table, <<"X">>) = Some(1)

\* C4 as stated: when the label pass meets a declaration of a name that is
\* already bound, translation fails with AlreadyBound naming it and no
\* output is produced.
C4_AsStated ==
    (pc \in {"insts", "done", "failed"} /\ \E i \in DOMAIN lines : Collides(i)) =>
        /\ output = None
        /\ pc \in {"done", "failed"} =>
               /\ pc = "failed"
               /\ \E i \in DOMAIN lines :
                      /\ Collides(i)
                      /\ err = Some([msg |-> "Unable to collect labels",
                                     error |-> AlreadyBound(LabelOf(i))])

SymbolOf(i) ==
    IF ~IsLabelLine(i) /\ A_INST(lines[i]) # None
          /\ "symbol" \in DOMAIN A_INST(lines[i]).val
    THEN Some(A_INST(lines[i]).val.symbol)
    ELSE None

\* C10 as stated: in a completed translation an @name whose name is
\* declared as a label anywhere in the program is encoded with the label's
\* instruction address, and exactly the referenced names that are neither
\* predefined nor declared as labels are allocated, from 16 upward.
C10_AsStated ==
    (pc = "done") =>
        /\ \A i \in DOMAIN lines :
               (/\ SymbolOf(i) # None
                /\ \E j \in DOMAIN lines : Declares(j, SymbolOf(i).val)) =>
                   \E j \in DOMAIN lines :
                       /\ Declares(j, SymbolOf(i).val)
                       /\ code[InstructionsBefore(i) + 1] =
                              Binary16(InstructionsBefore(j) % (AddressMask + 1))
        /\ LET variables ==
                   {n \in {SymbolOf(i).val :
                               i \in {k \in DOMAIN lines : SymbolOf(k) # None}} :
                       /\ n \notin DOMAIN InitialEntries
                       /\ ~\E j \in DOMAIN lines : Declares(j, n)}
           IN /\ table.next_local = FirstLocal + Cardinality(variables)
              /\ \A n \in variables :
                     table.entries[n] \in
                         FirstLocal..(FirstLocal + Cardinality(variables) - 1)

====
